---- MODULE Spec2Model ----
(***************************************************************************)
(* Model of src/app.py: StarRating.calculate and simulate_game.            *)
(*                                                                         *)
(* Numbers.  Every real quantity of the program (points, rates,            *)
(* percentages, stars) is a fixed-point integer counted in ticks of        *)
(* 1/ONE = 1/20000.  The tick is chosen so that weighted_score is exact    *)
(* on whole-point averages and whole-percent over rates.  sqrt and log     *)
(* are computed by integer algorithms that are accurate to a few ticks     *)
(* (about 2e-4); TLC's integers are 32 bits wide, so every product below   *)
(* is arranged to stay under 2^31.                                         *)
(*                                                                         *)
(* Floats.  A Python float is a record [k, v]: k = "fin" with v in ticks,  *)
(* or k in {"nan", "inf", "-inf"} with v = 0.  The float operations used   *)
(* by StarRating.calculate propagate the non-finite values as IEEE 754     *)
(* and Python's min/max/round do.                                          *)
(*                                                                         *)
(* Randomness.  np.random.normal, nbinom.rvs and poisson.rvs are not       *)
(* sampled: what the program reads from NUM_SIMULATIONS paired draws is    *)
(* only how many of the sums exceed the target, and that count is chosen   *)
(* nondeterministically among the counts the distribution can produce.     *)
(***************************************************************************)
EXTENDS Integers, FiniteSets, Sequences, TLC

VARIABLES pc, home, away, target, draws, loc, result, prev, sargs, sres

vars == <<pc, home, away, target, draws, loc, result, prev, sargs, sres>>

---------------------------------------------------------------------------
(* Fixed point *)

\* ticks per 1.0
ONE == 2 * 10000

Pts(n) == n * ONE

\* p percent as a fraction (the form divides the slider value by 100)
Pct(p) == p * (ONE \div 100)

\* floor(a * b / c) without forming a * b; needs c > 0 and (c - 1) * b < 2^31
MulDiv(a, b, c) == (a \div c) * b + ((a % c) * b) \div c

\* n / d rounded to the nearest integer, ties to the even one (d > 0)
RoundHalfEven(n, d) ==
    LET q == n \div d
        r == n % d
    IN  IF 2 * r < d THEN q
        ELSE IF 2 * r > d THEN q + 1
        ELSE IF q % 2 = 0 THEN q ELSE q + 1

RECURSIVE SqrtSearch(_, _, _)
SqrtSearch(n, lo, hi) ==
    IF lo >= hi THEN lo
    ELSE LET mid == (lo + hi + 1) \div 2
         IN  IF mid * mid <= n THEN SqrtSearch(n, mid, hi)
             ELSE SqrtSearch(n, lo, mid - 1)

\* floor(sqrt(n)) for 0 <= n < 2^31
ISqrt(n) == SqrtSearch(n, 0, 46340)

\* ln 2 in ticks (0.693147 * 20000)
LN2 == 13863

\* 2 * atanh(z) = 2 * (z + z^3/3 + z^5/5 + z^7/7 + z^9/9), z in ticks, |z| <= ONE/3
Atanh2(z) ==
    LET z2 == MulDiv(z, z, ONE)
        z3 == MulDiv(z, z2, ONE)
        z5 == MulDiv(z3, z2, ONE)
        z7 == MulDiv(z5, z2, ONE)
        z9 == MulDiv(z7, z2, ONE)
    IN  2 * (z + z3 \div 3 + z5 \div 5 + z7 \div 7 + z9 \div 9)

RECURSIVE LnTicks(_)
\* ln(x / ONE) in ticks, for x > 0: halve or double x into [ONE, 2 ONE), then
\* ln y = 2 atanh((y - 1) / (y + 1))
LnTicks(x) ==
    IF x >= 2 * ONE THEN LN2 + LnTicks(x \div 2)
    ELSE IF x < ONE THEN LnTicks(2 * x) - LN2
    ELSE Atanh2(MulDiv(x - ONE, ONE, x + ONE))

---------------------------------------------------------------------------
(* Python floats *)

Fin(v) == [k |-> "fin", v |-> v]
NaN == [k |-> "nan", v |-> 0]
PosInf == [k |-> "inf", v |-> 0]
NegInf == [k |-> "-inf", v |-> 0]
\* the value of a negative float raised to a fractional power: a complex number
Complex == [k |-> "complex", v |-> 0]

IsFinite(a) == a.k = "fin"

\* a < b; every comparison with nan is False
FLt(a, b) ==
    CASE a.k = "nan" \/ b.k = "nan" -> FALSE
      [] a.k = "fin" /\ b.k = "fin" -> a.v < b.v
      [] a.k = "-inf" -> b.k # "-inf"
      [] b.k = "inf" -> a.k # "inf"
      [] OTHER -> FALSE

\* a + b
FAdd(a, b) ==
    CASE a.k = "nan" \/ b.k = "nan" -> NaN
      [] a.k = "fin" /\ b.k = "fin" -> Fin(a.v + b.v)
      [] a.k = "fin" -> b
      [] b.k = "fin" -> a
      [] a.k = b.k -> a
      [] OTHER -> NaN

\* a - b
FSub(a, b) ==
    FAdd(a, CASE b.k = "fin" -> Fin(-b.v)
              [] b.k = "inf" -> NegInf
              [] b.k = "-inf" -> PosInf
              [] OTHER -> b)

\* (num / den) * a for a positive literal num / den
FScale(num, den, a) ==
    IF a.k = "fin" THEN Fin(RoundHalfEven(a.v * num, den)) ELSE a

\* Python's min(a, b): b when b < a, else a
PyMin(a, b) == IF FLt(b, a) THEN b ELSE a

\* Python's max(a, b): b when b > a, else a
PyMax(a, b) == IF FLt(a, b) THEN b ELSE a

\* round(a, ndigits) with unit = 10^-ndigits in ticks; nan and the infinities
\* round to themselves
RoundUnit(a, unit) ==
    IF a.k = "fin" THEN Fin(RoundHalfEven(a.v, unit) * unit) ELSE a

\* np.log1p(a): -inf at -1, nan below -1 (numpy warns, it does not raise)
Log1p(a) ==
    CASE a.k = "nan" -> NaN
      [] a.k = "inf" -> PosInf
      [] a.k = "-inf" -> NaN
      [] a.v = -ONE -> NegInf
      [] a.v < -ONE -> NaN
      [] OTHER -> Fin(LnTicks(ONE + a.v))

RECURSIVE SqrtTicks(_)
\* sqrt(r / ONE) in ticks for r >= 0: floor(sqrt(r * ONE)), through
\* sqrt(r) = 2 sqrt(r / 4) where r * ONE would pass 2^31
SqrtTicks(r) ==
    IF r <= 5 * ONE THEN ISqrt(r * ONE) ELSE 2 * SqrtTicks(r \div 4)

\* a ** 1.5 for a Python float a: a * sqrt(a) for 0 <= a; a negative finite a
\* gives a complex number; (-inf) ** 1.5 is inf
Pow15(a) ==
    CASE a.k = "nan" -> NaN
      [] a.k = "inf" -> PosInf
      [] a.k = "-inf" -> PosInf
      [] a.v < 0 -> Complex
      [] OTHER -> Fin(MulDiv(a.v, SqrtTicks(a.v), ONE))

---------------------------------------------------------------------------
(* StarRating.calculate, src/app.py lines 9-19 *)

\* the literals 5 and 1 of lines 12 and 19, and one decimal place
FIVE == Fin(5 * ONE)
UNIT == Fin(ONE)
TENTH == ONE \div 10

\* Base with the power written as a product: 0.5 + (prob/20) * 1.5
BaseProduct(prob) ==
    IF prob.k = "fin" /\ prob.v < 0 THEN Complex
    ELSE PyMin(FIVE, FAdd(Fin(ONE \div 2), FScale(3, 40, prob)))

\* line 12: min(5, 0.5 + (prob/20)**1.5).  A complex power cannot be ordered
\* against 5: min raises TypeError, shown here as the Complex marker.
Base(prob) ==
    LET p == Pow15(FScale(1, 20, prob))
    IN  IF p.k = "complex" THEN Complex
        ELSE PyMin(FIVE, FAdd(Fin(ONE \div 2), p))

\* lines 13-18
Adjustments(mean_diff, over_consistency, volatility, trend_strength) ==
    FSub(FAdd(FAdd(FScale(4, 5, mean_diff),
                   FScale(3, 5, over_consistency)),
              FScale(2, 5, Log1p(volatility))),
         FScale(3, 10, trend_strength))

\* Round1 with the wrong number of digits: round(x, 2)
Round1TwoDigits(x) == RoundUnit(x, ONE \div 100)

\* line 19: round(x, 1)
Round1(x) == RoundUnit(x, TENTH)

\* Clamp with the lower limit 0: min(5, max(0, rounded))
ClampFromZero(rounded) == PyMin(FIVE, PyMax(Fin(0), rounded))

\* line 19: min(5, max(1, rounded))
Clamp(rounded) == PyMin(FIVE, PyMax(UNIT, rounded))

\* StarRating.calculate: the outcome, the rating returned and the locals
Calculate(prob, mean_diff, over_consistency, volatility, trend_strength) ==
    LET base == Base(prob)
        adjustments == Adjustments(mean_diff, over_consistency,
                                   volatility, trend_strength)
    IN  IF base.k = "complex"
        THEN [outcome |-> "TypeError", stars |-> NaN, base |-> base,
              adjustments |-> NaN, raw |-> NaN]
        ELSE [outcome |-> "return",
              stars |-> Clamp(Round1(FAdd(base, adjustments))),
              base |-> base, adjustments |-> adjustments,
              raw |-> FAdd(base, adjustments)]

---------------------------------------------------------------------------
(* simulate_game, src/app.py lines 21-71 *)

\* NUM_SIMULATIONS (50000 in the source), the number of paired draws per model
NUM_SIMULATIONS == 2

\* NB_R = 6.8
NB_R == (68 * ONE) \div 10

\* WeightedScore with the two weights exchanged: avg * 0.3 + opp_allow * 0.7
WeightedScoreSwapped(data, opp_allow) ==
    MulDiv(RoundHalfEven(data.avg * 3, 10) + RoundHalfEven(opp_allow * 7, 10),
           ONE + RoundHalfEven(data.over_rate, 20),
           ONE)

\* WeightedScore with the team's own average subtracted: opp_allow * 0.3 - avg * 0.7
WeightedScoreMinus(data, opp_allow) ==
    MulDiv(RoundHalfEven(opp_allow * 3, 10) - RoundHalfEven(data.avg * 7, 10),
           ONE + RoundHalfEven(data.over_rate, 20),
           ONE)

\* lines 22-26
WeightedScore(data, opp_allow) ==
    MulDiv(RoundHalfEven(data.avg * 7, 10) + RoundHalfEven(opp_allow * 3, 10),
           ONE + RoundHalfEven(data.over_rate, 20),
           ONE)

\* np.mean(sums > target) * 100 when k of the NUM_SIMULATIONS sums exceed target
ProbOf(k) == RoundHalfEven(k * 100 * ONE, NUM_SIMULATIONS)

\* FinalProb with the third weight 0.4 as well: the weights sum to 1.2
FinalProbOverweight(mc_prob, nb_prob, poisson_prob) ==
    RoundHalfEven(mc_prob * 2, 5) + RoundHalfEven(nb_prob * 2, 5)
        + RoundHalfEven(poisson_prob * 2, 5)

\* line 46
FinalProb(mc_prob, nb_prob, poisson_prob) ==
    RoundHalfEven(mc_prob * 2, 5) + RoundHalfEven(nb_prob * 2, 5)
        + RoundHalfEven(poisson_prob, 5)

\* line 48
MeanDiff(combined_avg, tgt) == RoundHalfEven(combined_avg - tgt, 5)

\* line 49
OverConsistency(h, a) == h.over_rate + a.over_rate - ONE

\* line 50: np.std of two values, the population standard deviation
\* sqrt(((x - m)^2 + (y - m)^2) / 2) with m = (x + y) / 2, which is |x - y| / 2
Std2(x, y) == (IF x >= y THEN x - y ELSE y - x) \div 2

\* line 51
TrendStrength(h, a) == h.over_rate - a.over_rate

\* Recommendation with a strict comparison: final_prob > 50
RecommendationStrict(final_prob) ==
    IF final_prob > Pts(50) THEN "over" ELSE "under"

\* line 70 ("over" stands for the label '大分', "under" for '小分')
Recommendation(final_prob) == IF final_prob >= Pts(50) THEN "over" ELSE "under"

\* line 36: p = NB_R / (NB_R + mean).  nbinom.rvs (line 37) needs 0 < p < 1,
\* that is 0 < NB_R < NB_R + mean; poisson.rvs (line 42) needs a rate > 0
SamplingDefined(mean) ==
    /\ NB_R + mean > 0
    /\ NB_R < NB_R + mean
    /\ mean > 0

\* How many of the NUM_SIMULATIONS sums can exceed the target.  A normal sum
\* (line 32) can fall on either side of any target.
McCounts == 0 .. NUM_SIMULATIONS

\* nbinom and poisson draws (lines 37, 42) are integers >= 0 with every value
\* possible: every sum exceeds a negative target
CountCounts(tgt) ==
    IF tgt < 0 THEN {NUM_SIMULATIONS} ELSE 0 .. NUM_SIMULATIONS

\* Locals with mean_diff taken from the fused probability instead of the
\* combined average: (final_prob - target) / 5
LocalsMixedUp(h, a, tgt, d) ==
    LET home_score == WeightedScore(h, a.allow)
        away_score == WeightedScore(a, h.allow)
        combined_avg == home_score + away_score
        mc_prob == ProbOf(d.mc)
        nb_prob == ProbOf(d.nb)
        poisson_prob == ProbOf(d.po)
        final_prob == FinalProb(mc_prob, nb_prob, poisson_prob)
        mean_diff == MeanDiff(final_prob, tgt)
        over_consistency == OverConsistency(h, a)
        volatility == Std2(h.avg, h.allow)
        trend_strength == TrendStrength(h, a)
        rating == Calculate(Fin(final_prob), Fin(mean_diff),
                            Fin(over_consistency), Fin(volatility),
                            Fin(trend_strength))
    IN  [home_score |-> home_score, away_score |-> away_score,
         combined_avg |-> combined_avg, mc_prob |-> mc_prob,
         nb_prob |-> nb_prob, poisson_prob |-> poisson_prob,
         final_prob |-> final_prob, mean_diff |-> mean_diff,
         over_consistency |-> over_consistency, volatility |-> volatility,
         trend_strength |-> trend_strength, stars |-> rating.stars.v]

\* the locals of simulate_game when it reaches line 61, given the draws
Locals(h, a, tgt, d) ==
    LET home_score == WeightedScore(h, a.allow)
        away_score == WeightedScore(a, h.allow)
        combined_avg == home_score + away_score
        mc_prob == ProbOf(d.mc)
        nb_prob == ProbOf(d.nb)
        poisson_prob == ProbOf(d.po)
        final_prob == FinalProb(mc_prob, nb_prob, poisson_prob)
        mean_diff == MeanDiff(combined_avg, tgt)
        over_consistency == OverConsistency(h, a)
        volatility == Std2(h.avg, h.allow)
        trend_strength == TrendStrength(h, a)
        rating == Calculate(Fin(final_prob), Fin(mean_diff),
                            Fin(over_consistency), Fin(volatility),
                            Fin(trend_strength))
    IN  [home_score |-> home_score, away_score |-> away_score,
         combined_avg |-> combined_avg, mc_prob |-> mc_prob,
         nb_prob |-> nb_prob, poisson_prob |-> poisson_prob,
         final_prob |-> final_prob, mean_diff |-> mean_diff,
         over_consistency |-> over_consistency, volatility |-> volatility,
         trend_strength |-> trend_strength, stars |-> rating.stars.v]

\* lines 61-71: the dict returned
ResultOf(l) ==
    [outcome |-> "return",
     combined_avg |-> l.combined_avg, probability |-> l.final_prob,
     stars |-> l.stars, mc_prob |-> l.mc_prob, nb_prob |-> l.nb_prob,
     poisson_prob |-> l.poisson_prob, home_score |-> l.home_score,
     away_score |-> l.away_score,
     recommendation |-> Recommendation(l.final_prob)]

---------------------------------------------------------------------------
(* The inputs *)

Team(avg, allow, over_rate) ==
    [avg |-> avg, allow |-> allow, over_rate |-> over_rate]

\* the preconditions the specification states for simulate
ValidTeam(t) ==
    t.avg > 0 /\ t.allow > 0 /\ t.over_rate >= 0 /\ t.over_rate <= ONE

ValidInput(h, a, tgt) == ValidTeam(h) /\ ValidTeam(a) /\ tgt > 0

\* Direct calls of simulate_game: the form's default scenario and the ends of
\* its ranges (lines 81-90), and around them a zero average, over rates
\* outside [0, 1] and a negative target
Avgs == {0, Pts(50), Pts(110), Pts(112), Pts(150)}
Allows == {Pts(108), Pts(111)}
OverRates == {Pct(-10), Pct(0), Pct(50), Pct(55), Pct(100), Pct(150)}
Targets == {-Pts(5), Pts(100), Pts(2255) \div 10, Pts(300)}

Teams == {Team(avg, allow, o) : avg \in Avgs, allow \in Allows, o \in OverRates}

\* Resubmitted forms: the fields stay, the home average is edited
PairAvgs == {Pts(50), Pts(110), Pts(150)}
PairTeams == {Team(avg, allow, o) :
                avg \in PairAvgs, allow \in {Pts(108)}, o \in {Pct(0), Pct(55)}}
PairAways == {Team(Pts(112), Pts(111), Pct(50)), Team(Pts(90), Pts(120), Pct(100))}
PairTargets == {Pts(2255) \div 10, Pts(200)}

\* Direct calls of StarRating.calculate
MaxMdSteps == 48
MdStep == ONE \div 32
Probs == {Fin(0), Fin(Pts(25)), Fin(Pts(50)), Fin(Pts(54)), Fin(Pts(55)),
          Fin(Pts(100)), Fin(-Pts(10)), NaN, PosInf, NegInf}
MeanDiffs == {Fin(k * MdStep) : k \in -MaxMdSteps .. MaxMdSteps}
                \cup {Fin(-Pts(10)), Fin(-Pts(3)), Fin(Pts(3)), Fin(Pts(10)),
                      NaN, PosInf, NegInf}
OverConsistencies == {Fin(-ONE), Fin(0), Fin(ONE), NaN}
Volatilities == {Fin(0), Fin(Pts(1)), Fin(Pts(50)), Fin(-ONE), Fin(-Pts(2)),
                 NaN, PosInf}
TrendStrengths == {Fin(-ONE), Fin(0), Fin(ONE), NaN}

---------------------------------------------------------------------------
(* The state machine *)

NoTeam == Team(0, 0, 0)
NoDraws == [mc |-> 0, nb |-> 0, po |-> 0]
NoLocals ==
    [home_score |-> 0, away_score |-> 0, combined_avg |-> 0, mc_prob |-> 0,
     nb_prob |-> 0, poisson_prob |-> 0, final_prob |-> 0, mean_diff |-> 0,
     over_consistency |-> 0, volatility |-> 0, trend_strength |-> 0, stars |-> 0]
NoResult ==
    [outcome |-> "none", combined_avg |-> 0, probability |-> 0, stars |-> 0,
     mc_prob |-> 0, nb_prob |-> 0, poisson_prob |-> 0, home_score |-> 0,
     away_score |-> 0, recommendation |-> "none"]
NoPrev == [called |-> FALSE, home |-> NoTeam, away |-> NoTeam, target |-> 0,
           draws |-> NoDraws, loc |-> NoLocals, result |-> NoResult]
NoArgs == [prob |-> Fin(0), mean_diff |-> Fin(0), over_consistency |-> Fin(0),
           volatility |-> Fin(0), trend_strength |-> Fin(0)]
NoRating == [outcome |-> "none", stars |-> NaN, base |-> NaN,
             adjustments |-> NaN, raw |-> NaN]

\* simulate_game(home, away, target) is about to be called
Init ==
    /\ pc = "ready"
    /\ home \in Teams /\ away \in Teams /\ target \in Targets
    /\ draws = NoDraws /\ loc = NoLocals /\ result = NoResult
    /\ prev = NoPrev /\ sargs = NoArgs /\ sres = NoRating

\* the first submission of a form
InitPair ==
    /\ pc = "ready"
    /\ home \in PairTeams /\ away \in PairAways /\ target \in PairTargets
    /\ draws = NoDraws /\ loc = NoLocals /\ result = NoResult
    /\ prev = NoPrev /\ sargs = NoArgs /\ sres = NoRating

\* StarRating.calculate(...) is about to be called
InitStar ==
    /\ pc = "star_ready"
    /\ home = NoTeam /\ away = NoTeam /\ target = 0
    /\ draws = NoDraws /\ loc = NoLocals /\ result = NoResult
    /\ prev = NoPrev
    /\ sargs \in [prob : Probs, mean_diff : MeanDiffs,
                  over_consistency : OverConsistencies,
                  volatility : Volatilities, trend_strength : TrendStrengths]
    /\ sres = NoRating

\* simulate_game runs from line 21 to the return of line 61
SimulateGame ==
    /\ pc = "ready"
    /\ \E mc \in McCounts, nb \in CountCounts(target), po \in CountCounts(target) :
         /\ draws' = [mc |-> mc, nb |-> nb, po |-> po]
         /\ loc' = Locals(home, away, target, draws')
         /\ result' = ResultOf(loc')
    /\ pc' = "done"
    /\ UNCHANGED <<home, away, target, prev, sargs, sres>>

\* lines 94-98: the form is submitted a second time with the home average
\* edited (or left as it is) and simulate_game runs on it.  The first call is
\* kept in prev; a third submission would only replace it.
SubmitAgain ==
    /\ pc = "done"
    /\ ~prev.called
    /\ \E avg \in PairAvgs, mc \in McCounts,
          nb \in CountCounts(target), po \in CountCounts(target) :
         /\ home' = [home EXCEPT !.avg = avg]
         /\ draws' = [mc |-> mc, nb |-> nb, po |-> po]
         /\ loc' = Locals(home', away, target, draws')
         /\ result' = ResultOf(loc')
    /\ prev' = [called |-> TRUE, home |-> home, away |-> away,
                target |-> target, draws |-> draws, loc |-> loc,
                result |-> result]
    /\ UNCHANGED <<pc, away, target, sargs, sres>>

\* StarRating.calculate runs from line 11 to line 19
CalculateCall ==
    /\ pc = "star_ready"
    /\ sres' = Calculate(sargs.prob, sargs.mean_diff, sargs.over_consistency,
                         sargs.volatility, sargs.trend_strength)
    /\ pc' = "star_done"
    /\ UNCHANGED <<home, away, target, draws, loc, result, prev, sargs>>

Next == SimulateGame

NextPair == SimulateGame \/ SubmitAgain

NextStar == CalculateCall

Spec == Init /\ [][Next]_vars

SpecPair == InitPair /\ [][NextPair]_vars

SpecStar == InitStar /\ [][NextStar]_vars

\* every call the three specifications make keeps the samplers in their domain
SamplingInDomain ==
    pc = "done" => SamplingDefined(loc.home_score) /\ SamplingDefined(loc.away_score)

---------------------------------------------------------------------------
(* Claims about simulate_game, checked under Spec *)

\* C1: for every valid input and every outcome of the draws, simulate_game
\* returns a fused probability in [0, 100] and a star rating in [1.0, 5.0].
ProbabilityAndStarsInRange ==
    (pc = "done" /\ ValidInput(home, away, target)) =>
        /\ result.outcome = "return"
        /\ result.probability >= 0 /\ result.probability <= Pts(100)
        /\ result.stars >= Pts(1) /\ result.stars <= Pts(5)

\* a valid call whose draws all exceed the target while the combined average
\* lies far below it: the probability is at its upper end, the rating at its lower
ProbabilityAndStarsAtTheEnds ==
    /\ pc = "done" /\ ValidInput(home, away, target)
    /\ result.probability = Pts(100)
    /\ loc.mean_diff < -Pts(10)
    /\ result.stars = Pts(1)

\* C2: the recommendation is "over" exactly when the fused probability is
\* >= 50; exactly 50.0 gives "over", anything below gives "under".
RecommendationIffAtLeast50 ==
    pc = "done" =>
        /\ result.recommendation \in {"over", "under"}
        /\ result.recommendation = "over" <=> result.probability >= Pts(50)
        /\ result.probability = Pts(50) => result.recommendation = "over"
        /\ result.probability < Pts(50) => result.recommendation = "under"

\* a call whose fused probability is exactly 50.0 and is resolved to "over"
RecommendationAtExactly50 ==
    /\ pc = "done"
    /\ result.probability = Pts(50)
    /\ result.recommendation = "over"

\* C3: a call whose input violates a precondition ends in InvalidInput and
\* returns no result.
InvalidInputRejected ==
    (pc = "done" /\ ~ValidInput(home, away, target)) =>
        result.outcome = "InvalidInput"

\* C8: on the example scenario the expected scores are 113.33 and 113.57 and
\* the combined average, their sum, is 226.90 (two decimals); the home score
\* is (110*0.7 + 111*0.3) * 1.0275 and the away score (112*0.7 + 108*0.3) * 1.025.
ExampleHome == Team(Pts(110), Pts(108), Pct(55))
ExampleAway == Team(Pts(112), Pts(111), Pct(50))

\* x to two decimals, in hundredths
Hundredths(x) == RoundHalfEven(x, ONE \div 100)

ExampleScores ==
    (pc = "done" /\ home = ExampleHome /\ away = ExampleAway) =>
        /\ loc.home_score = (1103 * (ONE + Pct(55) \div 20)) \div 10
        /\ loc.away_score = (1108 * (ONE + Pct(50) \div 20)) \div 10
        /\ loc.combined_avg = loc.home_score + loc.away_score
        /\ Hundredths(loc.home_score) = 11333
        /\ Hundredths(loc.away_score) = 11357
        /\ Hundredths(loc.combined_avg) = 22690
        /\ result.home_score = loc.home_score
        /\ result.away_score = loc.away_score
        /\ result.combined_avg = loc.combined_avg

\* the example scenario has been simulated against its target 225.5
ExampleSimulated ==
    /\ pc = "done" /\ home = ExampleHome /\ away = ExampleAway
    /\ target = Pts(2255) \div 10
    /\ result.outcome = "return"

\* C8 as stated: home score 113.34 and combined average 226.91
ExampleScoresAsStated ==
    (pc = "done" /\ home = ExampleHome /\ away = ExampleAway) =>
        /\ Hundredths(loc.home_score) = 11334
        /\ Hundredths(loc.away_score) = 11357
        /\ loc.combined_avg = loc.home_score + loc.away_score
        /\ Hundredths(loc.combined_avg) = 22691

---------------------------------------------------------------------------
(* Claims about two calls of simulate_game, checked under SpecPair *)

\* the two calls' inputs agree in everything but home.avg
DifferOnlyInHomeAvg ==
    /\ prev.away = away /\ prev.target = target
    /\ prev.home.allow = home.allow
    /\ prev.home.over_rate = home.over_rate

\* C5: of two valid inputs that differ only in home.avg, the one with the
\* larger home.avg has a home score and a combined average that are not
\* smaller, and the same away score.
HomeAvgMonotone ==
    (/\ pc = "done" /\ prev.called
     /\ ValidInput(home, away, target)
     /\ ValidInput(prev.home, prev.away, prev.target)
     /\ DifferOnlyInHomeAvg
     /\ home.avg >= prev.home.avg) =>
        /\ loc.home_score >= prev.loc.home_score
        /\ loc.combined_avg >= prev.loc.combined_avg
        /\ loc.away_score = prev.loc.away_score

\* two valid calls, the second with a larger home.avg and a larger home score
HomeAvgRaised ==
    /\ pc = "done" /\ prev.called
    /\ ValidInput(home, away, target)
    /\ ValidInput(prev.home, prev.away, prev.target)
    /\ DifferOnlyInHomeAvg
    /\ home.avg > prev.home.avg
    /\ loc.home_score > prev.loc.home_score

\* C6: two calls on identical inputs, whatever the draws of each, agree on
\* homeScore, awayScore, combinedAverage, meanDiff, overConsistency,
\* volatility and trendStrength.
DeterministicFields ==
    (/\ pc = "done" /\ prev.called
     /\ prev.home = home /\ prev.away = away /\ prev.target = target) =>
        /\ loc.home_score = prev.loc.home_score
        /\ loc.away_score = prev.loc.away_score
        /\ loc.combined_avg = prev.loc.combined_avg
        /\ loc.mean_diff = prev.loc.mean_diff
        /\ loc.over_consistency = prev.loc.over_consistency
        /\ loc.volatility = prev.loc.volatility
        /\ loc.trend_strength = prev.loc.trend_strength

\* two calls on identical inputs whose draws differ in all three models and
\* whose fused probabilities differ
SameInputsOtherDraws ==
    /\ pc = "done" /\ prev.called
    /\ prev.home = home /\ prev.away = away /\ prev.target = target
    /\ prev.draws.mc # draws.mc /\ prev.draws.nb # draws.nb
    /\ prev.draws.po # draws.po
    /\ prev.loc.final_prob # loc.final_prob

---------------------------------------------------------------------------
(* Claims about StarRating.calculate, checked under SpecStar *)

AllFinite ==
    /\ IsFinite(sargs.prob) /\ IsFinite(sargs.mean_diff)
    /\ IsFinite(sargs.over_consistency) /\ IsFinite(sargs.volatility)
    /\ IsFinite(sargs.trend_strength)

\* C4: calculate has two outcomes: it returns a rating when all five inputs
\* are finite, and when any input is NaN or infinite it signals InvalidInput
\* instead of returning a rating: no call with a non-finite input returns one.
\* (The first outcome fails as well: a negative finite prob makes
\* (prob/20)**1.5 complex and min raise TypeError.)
NonFiniteInputsNeverRated ==
    (pc = "star_done" /\ ~AllFinite) => sres.outcome # "return"

\* the signals other than prob and meanDiff lie in the ranges simulate_game
\* gives them on the form's inputs (lines 81-88): rates in [0, 1], averages
\* in [50, 150]
SignalsInEngineRange ==
    /\ IsFinite(sargs.over_consistency)
    /\ sargs.over_consistency.v >= -ONE /\ sargs.over_consistency.v <= ONE
    /\ IsFinite(sargs.trend_strength)
    /\ sargs.trend_strength.v >= -ONE /\ sargs.trend_strength.v <= ONE
    /\ IsFinite(sargs.volatility)
    /\ sargs.volatility.v >= 0 /\ sargs.volatility.v <= Pts(50)

\* what "large" is taken to mean for meanDiff
LargeMeanDiff == Pts(3)

\* C7: with prob = 0 and a large negative meanDiff the rating is exactly 1.0,
\* with prob = 100 and a large positive meanDiff it is exactly 5.0 (meanDiff
\* beyond -3 and 3, the other signals within the engine's ranges).
StarSaturation ==
    (pc = "star_done" /\ SignalsInEngineRange /\ IsFinite(sargs.mean_diff)) =>
        /\ (sargs.prob = Fin(0) /\ sargs.mean_diff.v <= -LargeMeanDiff) =>
               sres.outcome = "return" /\ sres.stars = UNIT
        /\ (sargs.prob = Fin(Pts(100)) /\ sargs.mean_diff.v >= LargeMeanDiff) =>
               sres.outcome = "return" /\ sres.stars = FIVE

\* prob = 0 and meanDiff = -3 with the other signals pushing the rating up as
\* far as they can: the sum is still below 1 and the rating is 1.0
SaturatedLow ==
    /\ pc = "star_done"
    /\ sargs.prob = Fin(0) /\ sargs.mean_diff = Fin(-LargeMeanDiff)
    /\ sargs.over_consistency = Fin(ONE) /\ sargs.volatility = Fin(Pts(50))
    /\ sargs.trend_strength = Fin(-ONE)
    /\ FLt(sres.raw, UNIT)
    /\ sres.stars = UNIT

\* C9: the base term is about 4.45 (0.5 + 2.5^1.5 = 4.4528) at prob = 50 and
\* exactly 5.0 at prob = 100.
BaseAtFiftyAndHundred ==
    pc = "star_done" =>
        /\ sargs.prob = Fin(Pts(50)) =>
               /\ IsFinite(sres.base)
               /\ sres.base.v >= (445 * ONE) \div 100
               /\ sres.base.v < (446 * ONE) \div 100
        /\ sargs.prob = Fin(Pts(100)) => sres.base = FIVE

\* calculate has run on prob = 50 and its base is below the cap
BaseAtFiftyComputed ==
    /\ pc = "star_done" /\ sargs.prob = Fin(Pts(50))
    /\ sres.outcome = "return"
    /\ FLt(sres.base, FIVE)

\* C9 as stated: the base term is about 2.3 at prob = 50 and 5.0 at prob = 100
BaseAsStated ==
    pc = "star_done" =>
        /\ sargs.prob = Fin(Pts(50)) =>
               /\ IsFinite(sres.base)
               /\ sres.base.v >= (225 * ONE) \div 100
               /\ sres.base.v <= (235 * ONE) \div 100
        /\ sargs.prob = Fin(Pts(100)) => sres.base = FIVE

\* C10: the rating, round(base + adjustment, 1) clamped to [1, 5], equals the
\* sum clamped to [1, 5] first and rounded to one decimal afterwards, and is
\* a multiple of 0.1.
RoundClampOrderImmaterial ==
    (pc = "star_done" /\ sres.outcome = "return") =>
        /\ sres.stars = RoundUnit(PyMin(FIVE, PyMax(UNIT, sres.raw)), TENTH)
        /\ IsFinite(sres.stars)
        /\ sres.stars.v % TENTH = 0

\* a sum strictly between 5.0 and 5.05, as the 5.04 of the design notes: it
\* rounds to 5.0 before the clamp and is clamped to 5.0 before the rounding
SumJustAboveFive ==
    /\ pc = "star_done" /\ sres.outcome = "return"
    /\ IsFinite(sres.raw)
    /\ sres.raw.v > 5 * ONE /\ sres.raw.v < 5 * ONE + TENTH \div 2
    /\ sres.stars = FIVE

====
